---- MODULE Spec2Model ----
(***************************************************************************)
(* Model of the pixlet applet runtime (runtime/applet.go): construction of *)
(* an applet from a virtual file set (NewAppletFromFS, load, ensureLoaded, *)
(* the thread.Load closure, loadModule) and the calls made on a            *)
(* constructed applet (RunWithConfig, CallSchemaHandler, GetSchema).       *)
(*                                                                         *)
(* Optional Go values (nil pointers, nil errors) are sequences of length   *)
(* at most one: <<>> is nil, <<v>> is the value v.  An error is the        *)
(* sequence of the pieces of its message, in the order fmt.Errorf writes   *)
(* them, so that wrapping an error keeps the wrapped message as a suffix.  *)
(***************************************************************************)
EXTENDS Integers, Sequences, FiniteSets, TLC

\* ------------------------------------------------------------------ bounds
\* total number of load statements, exports, faults and options in a file set
MaxFeatures == 3

\* ------------------------------------------------------------ the file set
\* Applet.ID
ID == "app"

\* the regular files of the virtual file set
Files == {"a.star", "b.star", "lib/c.star", "notes.txt"}

\* the directories of the virtual file set
Dirs == {".", "lib"}

\* fs.WalkDir visits the entries in lexical order
WalkOrder == <<".", "a.star", "b.star", "lib", "lib/c.star", "notes.txt">>

\* the names a load() statement may request
Modules == {"a.star", "./b.star", "lib/c.star", "lib", "render.star", "time.star", "nope.star"}

\* filepath.Clean on the paths and module names of the model
Clean(p) == IF p = "./b.star" THEN "b.star" ELSE p

\* filepath.Dir on the cleaned paths of the model
Dir(p) == IF p \in {"lib/c.star"} THEN "lib" ELSE "."

\* strings.HasSuffix(path, ".star")
HasStarSuffix(p) == p \in {"a.star", "b.star", "./b.star", "lib/c.star", "render.star", "time.star", "nope.star"}

\* fs.Stat(fsys, p) succeeds
StatOk(p) == p \in Files \cup Dirs

\* fs.ReadFile(fsys, p) succeeds
ReadOk(p) == p \in Files

Range(s) == {s[i] : i \in 1..Len(s)}

\* slices.Contains
Contains(s, x) == x \in Range(s)

NoErr == <<>>

\* a walk that also loads the scripts of the subdirectories
RootScripts_AllDirs == SelectSeq(WalkOrder, LAMBDA p : ~(p \in Dirs) /\ HasStarSuffix(p))

\* the entries for which the WalkDir callback calls ensureLoaded
RootScripts == SelectSeq(WalkOrder, LAMBDA p : ~(p \in Dirs \/ Dir(p) # ".") /\ HasStarSuffix(p))

\* schema.SchemaFunctionName
SchemaFunctionName == "get_schema"

\* ------------------------------------------------------------- source units
\* a script file: its load() statements in order, whether it defines main,
\* what its get_schema (if any) does, and whether its own statements fail
SchemaKinds == {"none", "ok", "callfail", "malformed", "panic"}
BadKinds == {"no", "syntax", "runtime", "panic"}

SeqsUpTo(S, n) == UNION {[1..k -> S] : k \in 0..n}

PlainUnit == [loads |-> <<>>, main |-> FALSE, schema |-> "none", bad |-> "no"]

Scripts == {"a.star", "b.star", "lib/c.star"}

B2N(b) == IF b THEN 1 ELSE 0

\* what a unit has besides its load statements
Traits == [main : BOOLEAN, schema : SchemaKinds, bad : BadKinds]

TraitSize(t) == B2N(t.main) + B2N(t.schema # "none") + B2N(t.bad # "no")

\* the units with n load statements, exports and faults in all
UnitsOfSize(n) ==
    UNION {{[loads |-> l, main |-> t.main, schema |-> t.schema, bad |-> t.bad] :
                l \in [1..k -> Modules], t \in {u \in Traits : TraitSize(u) = n - k}} : k \in 0..n}

\* the StringDict starlark.ExecFileOptions returns for a unit: its exported names
Exports(u) == (IF u.main THEN {"main"} ELSE {}) \cup (IF u.schema # "none" THEN {SchemaFunctionName} ELSE {})

\* ------------------------------------------------------------------ errors
ErrCircular(chain, path) == <<"circular dependency detected:">> \o chain \o <<path>>
ErrReading(path) == <<"reading", path>>
ErrExecFile(inner) == <<"starlark.ExecFile:">> \o inner
ErrModuleNotLoaded(path) == <<"module not loaded", path>>
ErrMultipleMain(path, mainFile) == <<"multiple files with a main() function:", path, mainFile>>
ErrMultipleSchema(path, schemaFile) == <<"multiple files with a function:", SchemaFunctionName, path, schemaFile>>
ErrCallingSchema(inner) == <<"calling schema function for", ID>> \o inner
ErrParsingSchema(inner) == <<"parsing schema for", ID>> \o inner
ErrNoMain == <<"no main() function found in", ID>>
ErrInvalidModule(module) == <<"invalid module:", module>>
ErrOption == <<"preparing secret key:">>
ErrPanicExec(r) == <<"panic while executing", ID, r>>

\* ----------------------------------------------------------- module registry
\* the names of the switch in loadModule
Builtins == {"render.star", "animation.star", "schema.star", "cache.star", "secret.star", "xpath.star", "compress/gzip.star", "compress/zipfile.star", "encoding/base64.star", "encoding/csv.star", "encoding/json.star", "hash.star", "hmac.star", "http.star", "html.star", "humanize.star", "math.star", "re.star", "sunrise.star", "time.star", "random.star", "qrcode.star", "assert.star"}

\* Applet.loadModule: ldr is a.loader, <<>> when no override is configured,
\* else <<S>> with S the names the override resolves.  The result is
\* [from, err]: who produced the bindings, and the error if nobody did.
loadModule(ldr, module) ==
    IF ldr # <<>> /\ module \in ldr[1] THEN [from |-> "override", err |-> NoErr]
    ELSE IF module \in Builtins THEN [from |-> "builtin", err |-> NoErr]
    ELSE [from |-> "none", err |-> ErrInvalidModule(module)]

\* ------------------------------------------------------------ script values
\* a starlark.Value is a record with its Type() and its contents
RootV(i) == [type |-> "Root", id |-> i]
StrV(x) == [type |-> "string", s |-> <<x>>]
NoneV == [type |-> "NoneType"]
IntV == [type |-> "int"]
ListV(es) == [type |-> "list", elems |-> es]
TupleV(es) == [type |-> "tuple", elems |-> es]
OptionV(d) == [type |-> "Option", display |-> d]
SchemaV(hs) == [type |-> "Schema", handlers |-> hs]

\* a *starlark.Function: the file that defines it and its Name()
Fun(file, name) == [file |-> file, name |-> name]

\* ----------------------------------------------------------- the interpreter
\* what starlark.Call can do with a function: return a value, fail with an
\* *starlark.EvalError, fail with another error, or panic
Returned(v) == [kind |-> "value", val |-> v]
EvalError(msg) == [kind |-> "evalerr", msg |-> msg]
OtherError(msg) == [kind |-> "err", msg |-> msg]
Panic(msg) == [kind |-> "panic", msg |-> msg]

\* Applet.Call, given what the interpreter does with the callable
Call(callable, interp) ==
    CASE interp.kind = "value" -> [val |-> <<interp.val>>, err |-> NoErr]
      [] interp.kind = "evalerr" -> [val |-> <<>>, err |-> <<"backtrace:", interp.msg>>]
      [] interp.kind = "err" -> [val |-> <<>>, err |-> <<"in", callable.name, "at", callable.file, interp.msg>>]
      [] interp.kind = "panic" -> [val |-> <<>>, err |-> <<"panic while running", ID, interp.msg>>]

\* ------------------------------------------------------------------ schema
ReturnOptions == "options"
ReturnSchema == "schema"
ReturnString == "string"

\* the handler registrations a well-formed get_schema of a file declares
HandlersOf(file) ==
    [h \in {"foobar", "get_opts", "more"} |->
        [Function |-> Fun(file, h),
         ReturnType |-> CASE h = "foobar" -> ReturnString [] h = "get_opts" -> ReturnOptions [] h = "more" -> ReturnSchema]]

\* schema.FromStarlark: a Schema value yields the schema with its handler
\* table, anything else is malformed
FromStarlark(val, globals) ==
    IF val.type = "Schema"
    THEN [schema |-> <<[Handlers |-> val.handlers]>>, err |-> NoErr]
    ELSE [schema |-> <<>>, err |-> <<"expected Schema but found:", val.type>>]

\* json.Marshal of a schema (the handler table is not serialized)
MarshalSchema(sch) == <<"{", "version:1", "schema:[]", "}">>

\* what the interpreter does with the get_schema of a unit
SchemaInterp(file, u) ==
    CASE u.schema = "ok" -> Returned(SchemaV(HandlersOf(file)))
      [] u.schema = "malformed" -> Returned(NoneV)
      [] u.schema = "callfail" -> EvalError("fail")
      [] u.schema = "panic" -> Panic("boom")

\* ------------------------------------------------------- calls in progress
\* most checkpoints of the interpreter one call passes
MaxCheckpoints == 2

\* the invocations of Applet.Call the callers make
Invocations == {"i1", "i2"}

\* the context.Contexts the callers pass
Ctxs == {"c1", "c2"}

\* context.Cause of a cancelled context
Causes == {"context canceled", "context deadline exceeded"}

\* an invocation that has not started
FreeInv ==
    [st |-> "free", ctx |-> "c1", plan |-> [kind |-> "none"], left |-> 0, passed |-> 0,
     reason |-> <<>>, armed |-> FALSE, fires |-> 0, firedAt |-> -1, doneAt |-> <<>>,
     out |-> [val |-> <<>>, err |-> NoErr]]

\* ------------------------------------------------------------------- state
VARIABLES
    files,      \* the script files of the file set: path -> unit
    loader,     \* the override a WithModuleLoader option configures, or <<>>
    optFail,    \* whether an option of the construction fails
    pc,         \* "new", "load" or "done": where NewAppletFromFS is
    walkIdx,    \* index in RootScripts of the next WalkDir callback
    stack,      \* the ensureLoaded calls in progress: [path, chain, next, got]
    retErr,     \* the error an ensureLoaded call is returning, or NoErr
    a,          \* the Applet under construction
    ret,        \* what NewAppletFromFS returned: [applet, err]
    evalOrder,  \* the paths stored in a.globals, in the order of storing
    reads,      \* the paths given to fs.ReadFile, in order
    ctorCalls,  \* the calls of a schema constructor: [fn, args], in order
    first,      \* what an earlier construction from the same file set gave, or <<>>
    last,       \* the last call made on the constructed applet
    scope,      \* context -> <<>> while live, <<cause>> once cancelled
    inv         \* invocation of Applet.Call -> its thread, watcher and result

vars == <<files, loader, optFail, pc, walkIdx, stack, retErr, a, ret, evalOrder, reads, ctorCalls, first, last, scope, inv>>

\* &Applet{ID: id, globals: make(map...)}
NewApplet == [globals |-> <<>>, mainFile |-> "", mainFun |-> <<>>, schemaFile |-> "", schema |-> <<>>, schemaJSON |-> <<>>]

\* the override loader of the model resolves these names
LoaderNames == {"nope.star", "a.star", "render.star"}

FileSet(x, y, z) == [p \in Scripts |-> CASE p = "a.star" -> x [] p = "b.star" -> y [] p = "lib/c.star" -> z]

\* NewAppletFromFS has not begun; no call is in progress
InitRest ==
    /\ pc = "new"
    /\ walkIdx = 1
    /\ stack = <<>>
    /\ retErr = NoErr
    /\ a = NewApplet
    /\ ret = [applet |-> <<>>, err |-> NoErr]
    /\ evalOrder = <<>>
    /\ reads = <<>>
    /\ ctorCalls = <<>>
    /\ first = <<>>
    /\ last = [op |-> "none"]
    /\ scope = [c \in Ctxs |-> <<>>]
    /\ inv = [i \in Invocations |-> FreeInv]

Init ==
    /\ \E i \in 0..MaxFeatures : \E j \in 0..(MaxFeatures - i) : \E k \in 0..(MaxFeatures - i - j) :
         \E x \in UnitsOfSize(i), y \in UnitsOfSize(j), z \in UnitsOfSize(k) :
           /\ files = FileSet(x, y, z)
           /\ \/ /\ loader = <<>>
                 /\ optFail = FALSE
              \/ /\ i + j + k < MaxFeatures
                 /\ loader = <<LoaderNames>>
                 /\ optFail = FALSE
              \/ /\ i + j + k = 0
                 /\ loader = <<>>
                 /\ optFail = TRUE
    /\ InitRest

\* the unit ensureLoaded reads at a path
Source(path) == IF path \in DOMAIN files THEN files[path] ELSE PlainUnit

Top == stack[Len(stack)]

\* what a load statement binds: the exports of a file, or of a module of the registry
FromFile(path) == [from |-> "file", name |-> path]
FromRegistry(module) == [from |-> loadModule(loader, module).from, name |-> module]

\* ------------------------------------------------------------ ensureLoaded
\* ensureLoaded recording the last unit with a main instead of failing
EnsureLoadedTail_NoMainCheck(ap, path, u) ==
    LET a1 == [ap EXCEPT !.globals = (path :> Exports(u)) @@ ap.globals]
        hasMain == "main" \in a1.globals[path]
        hasSchema == SchemaFunctionName \in a1.globals[path]
        a2 == IF hasMain THEN [a1 EXCEPT !.mainFile = path, !.mainFun = <<Fun(path, "main")>>] ELSE a1
        a3 == [a2 EXCEPT !.schemaFile = path]
        ctor == [fn |-> Fun(path, SchemaFunctionName), args |-> <<>>]
        called == Call(ctor.fn, SchemaInterp(path, u))
        parsed == FromStarlark(called.val[1], a3.globals[path])
        a4 == [a3 EXCEPT !.schema = parsed.schema]
        a5 == [a4 EXCEPT !.schemaJSON = <<MarshalSchema(a4.schema[1])>>]
    IN  IF ~hasSchema THEN [a |-> a2, err |-> NoErr, calls |-> <<>>]
        ELSE IF a2.schemaFile # "" THEN [a |-> a2, err |-> ErrMultipleSchema(path, a2.schemaFile), calls |-> <<>>]
        ELSE IF called.err # NoErr THEN [a |-> a3, err |-> ErrCallingSchema(called.err), calls |-> <<ctor>>]
        ELSE IF parsed.err # NoErr THEN [a |-> a4, err |-> ErrParsingSchema(parsed.err), calls |-> <<ctor>>]
        ELSE [a |-> a5, err |-> NoErr, calls |-> <<ctor>>]

\* ensureLoaded recording the last unit with a schema constructor instead of failing
EnsureLoadedTail_NoSchemaCheck(ap, path, u) ==
    LET a1 == [ap EXCEPT !.globals = (path :> Exports(u)) @@ ap.globals]
        hasMain == "main" \in a1.globals[path]
        hasSchema == SchemaFunctionName \in a1.globals[path]
        a2 == IF hasMain THEN [a1 EXCEPT !.mainFile = path, !.mainFun = <<Fun(path, "main")>>] ELSE a1
        a3 == [a2 EXCEPT !.schemaFile = path]
        ctor == [fn |-> Fun(path, SchemaFunctionName), args |-> <<>>]
        called == Call(ctor.fn, SchemaInterp(path, u))
        parsed == FromStarlark(called.val[1], a3.globals[path])
        a4 == [a3 EXCEPT !.schema = parsed.schema]
        a5 == [a4 EXCEPT !.schemaJSON = <<MarshalSchema(a4.schema[1])>>]
    IN  IF hasMain /\ a1.mainFile # "" THEN [a |-> a1, err |-> ErrMultipleMain(path, a1.mainFile), calls |-> <<>>]
        ELSE IF ~hasSchema THEN [a |-> a2, err |-> NoErr, calls |-> <<>>]
        ELSE IF called.err # NoErr THEN [a |-> a3, err |-> ErrCallingSchema(called.err), calls |-> <<ctor>>]
        ELSE IF parsed.err # NoErr THEN [a |-> a4, err |-> ErrParsingSchema(parsed.err), calls |-> <<ctor>>]
        ELSE [a |-> a5, err |-> NoErr, calls |-> <<ctor>>]

\* ensureLoaded from the stored export mapping on: the main and
\* schema-constructor checks, the call of the schema constructor
EnsureLoadedTail(ap, path, u) ==
    LET a1 == [ap EXCEPT !.globals = (path :> Exports(u)) @@ ap.globals]
        hasMain == "main" \in a1.globals[path]
        hasSchema == SchemaFunctionName \in a1.globals[path]
        a2 == IF hasMain THEN [a1 EXCEPT !.mainFile = path, !.mainFun = <<Fun(path, "main")>>] ELSE a1
        a3 == [a2 EXCEPT !.schemaFile = path]
        ctor == [fn |-> Fun(path, SchemaFunctionName), args |-> <<>>]
        called == Call(ctor.fn, SchemaInterp(path, u))
        parsed == FromStarlark(called.val[1], a3.globals[path])
        a4 == [a3 EXCEPT !.schema = parsed.schema]
        a5 == [a4 EXCEPT !.schemaJSON = <<MarshalSchema(a4.schema[1])>>]
    IN  IF hasMain /\ a1.mainFile # "" THEN [a |-> a1, err |-> ErrMultipleMain(path, a1.mainFile), calls |-> <<>>]
        ELSE IF ~hasSchema THEN [a |-> a2, err |-> NoErr, calls |-> <<>>]
        ELSE IF a2.schemaFile # "" THEN [a |-> a2, err |-> ErrMultipleSchema(path, a2.schemaFile), calls |-> <<>>]
        ELSE IF called.err # NoErr THEN [a |-> a3, err |-> ErrCallingSchema(called.err), calls |-> <<ctor>>]
        ELSE IF parsed.err # NoErr THEN [a |-> a4, err |-> ErrParsingSchema(parsed.err), calls |-> <<ctor>>]
        ELSE [a |-> a5, err |-> NoErr, calls |-> <<ctor>>]

\* an ensureLoaded call returns nil to its caller, whose calls in progress
\* are S: the WalkDir callback goes on to the next entry, the thread.Load
\* closure looks the mapping up and lets its unit go on to its next statement
ReturnNil(S, path, g) ==
    IF S = <<>>
    THEN /\ walkIdx' = walkIdx + 1
         /\ stack' = S
         /\ retErr' = NoErr
    ELSE IF path \in DOMAIN g
    THEN /\ stack' = [S EXCEPT ![Len(S)].next = @ + 1, ![Len(S)].got = Append(@, FromFile(path))]
         /\ retErr' = NoErr
         /\ UNCHANGED walkIdx
    ELSE /\ stack' = S
         /\ retErr' = ErrModuleNotLoaded(path)
         /\ UNCHANGED walkIdx

\* the call of ensureLoaded that begins the evaluation of a unit
Frame(path, chain) == [path |-> path, chain |-> chain, next |-> 1, got |-> <<>>]

\* ensureLoaded taking a unit in progress for a loaded one
EnsureLoadedHead_Partial(S, rawPath, currentlyLoading) ==
    LET path == Clean(rawPath)
    IN  IF path \in DOMAIN a.globals \/ Contains(currentlyLoading, path)
        THEN /\ stack' = IF S = <<>> THEN S ELSE [S EXCEPT ![Len(S)].next = @ + 1, ![Len(S)].got = Append(@, FromFile(path))]
             /\ walkIdx' = IF S = <<>> THEN walkIdx + 1 ELSE walkIdx
             /\ retErr' = NoErr
             /\ UNCHANGED reads
        ELSE IF ~ReadOk(path)
        THEN /\ retErr' = ErrReading(path)
             /\ stack' = S
             /\ reads' = Append(reads, path)
             /\ UNCHANGED walkIdx
        ELSE /\ stack' = Append(S, Frame(path, Append(currentlyLoading, path)))
             /\ retErr' = NoErr
             /\ reads' = Append(reads, path)
             /\ UNCHANGED walkIdx

\* ensureLoaded evaluating a unit again although its mapping is stored
EnsureLoadedHead_NoCache(S, rawPath, currentlyLoading) ==
    LET path == Clean(rawPath)
    IN  IF Contains(currentlyLoading, path)
        THEN /\ retErr' = ErrCircular(currentlyLoading, path)
             /\ stack' = S
             /\ UNCHANGED <<walkIdx, reads>>
        ELSE IF ~ReadOk(path)
        THEN /\ retErr' = ErrReading(path)
             /\ stack' = S
             /\ reads' = Append(reads, path)
             /\ UNCHANGED walkIdx
        ELSE /\ stack' = Append(S, Frame(path, Append(currentlyLoading, path)))
             /\ retErr' = NoErr
             /\ reads' = Append(reads, path)
             /\ UNCHANGED walkIdx

\* ensureLoaded keeping the units already loaded in the chain it passes on
EnsureLoadedHead_Stale(S, rawPath, currentlyLoading) ==
    LET path == Clean(rawPath)
    IN  IF path \in DOMAIN a.globals
        THEN /\ ReturnNil(S, path, a.globals)
             /\ UNCHANGED reads
        ELSE IF Contains(currentlyLoading, path)
        THEN /\ retErr' = ErrCircular(currentlyLoading, path)
             /\ stack' = S
             /\ UNCHANGED <<walkIdx, reads>>
        ELSE IF ~ReadOk(path)
        THEN /\ retErr' = ErrReading(path)
             /\ stack' = S
             /\ reads' = Append(reads, path)
             /\ UNCHANGED walkIdx
        ELSE /\ stack' = Append(S, Frame(path, evalOrder \o Append(currentlyLoading, path)))
             /\ retErr' = NoErr
             /\ reads' = Append(reads, path)
             /\ UNCHANGED walkIdx

\* ensureLoaded without the check of the load chain
EnsureLoadedHead_NoCycleCheck(S, rawPath, currentlyLoading) ==
    LET path == Clean(rawPath)
    IN  IF path \in DOMAIN a.globals
        THEN /\ ReturnNil(S, path, a.globals)
             /\ UNCHANGED reads
        ELSE IF ~ReadOk(path)
        THEN /\ retErr' = ErrReading(path)
             /\ stack' = S
             /\ reads' = Append(reads, path)
             /\ UNCHANGED walkIdx
        ELSE /\ stack' = Append(S, Frame(path, Append(currentlyLoading, path)))
             /\ retErr' = NoErr
             /\ reads' = Append(reads, path)
             /\ UNCHANGED walkIdx

\* ensureLoaded(fsys, path, currentlyLoading...) up to the evaluation of the
\* unit, called with the calls S in progress.  The chain is a value of the
\* call: append writes beyond the length of the caller's slice, so a callee
\* never changes the chain its caller, or a unit in progress, holds
EnsureLoadedHead(S, rawPath, currentlyLoading) ==
    LET path == Clean(rawPath)
    IN  IF path \in DOMAIN a.globals
        THEN /\ ReturnNil(S, path, a.globals)
             /\ UNCHANGED reads
        ELSE IF Contains(currentlyLoading, path)
        THEN /\ retErr' = ErrCircular(currentlyLoading, path)
             /\ stack' = S
             /\ UNCHANGED <<walkIdx, reads>>
        ELSE IF ~ReadOk(path)
        THEN /\ retErr' = ErrReading(path)
             /\ stack' = S
             /\ reads' = Append(reads, path)
             /\ UNCHANGED walkIdx
        ELSE /\ stack' = Append(S, Frame(path, Append(currentlyLoading, path)))
             /\ retErr' = NoErr
             /\ reads' = Append(reads, path)
             /\ UNCHANGED walkIdx

\* NewAppletFromFS applies the options
ApplyOptions ==
    /\ pc = "new"
    /\ IF optFail
       THEN /\ pc' = "done"
            /\ ret' = [applet |-> <<>>, err |-> ErrOption]
       ELSE /\ pc' = "load"
            /\ UNCHANGED ret
    /\ UNCHANGED <<files, loader, optFail, walkIdx, stack, retErr, a, evalOrder, reads, ctorCalls, first, last, scope, inv>>

\* a walk whose order of enumeration is not the same in every construction
WalkFile_Reversed ==
    /\ pc = "load"
    /\ stack = <<>>
    /\ retErr = NoErr
    /\ walkIdx <= Len(RootScripts)
    /\ EnsureLoadedHead(<<>>, RootScripts[IF first = <<>> THEN walkIdx ELSE Len(RootScripts) + 1 - walkIdx], <<>>)
    /\ UNCHANGED <<files, loader, optFail, pc, a, ret, evalOrder, ctorCalls, first, last, scope, inv>>

\* the WalkDir callback of load reaches the next root script
WalkFile ==
    /\ pc = "load"
    /\ stack = <<>>
    /\ retErr = NoErr
    /\ walkIdx <= Len(RootScripts)
    /\ EnsureLoadedHead(<<>>, RootScripts[walkIdx], <<>>)
    /\ UNCHANGED <<files, loader, optFail, pc, a, ret, evalOrder, ctorCalls, first, last, scope, inv>>

\* a thread.Load closure asking the registry before the file set
LoadStmt_RegistryFirst ==
    /\ pc = "load"
    /\ stack # <<>>
    /\ retErr = NoErr
    /\ Source(Top.path).bad # "syntax"
    /\ Top.next <= Len(Source(Top.path).loads)
    /\ LET module == Source(Top.path).loads[Top.next]
           modulePath == Clean(module)
       IN  IF loadModule(loader, module).err = NoErr
           THEN /\ stack' = [stack EXCEPT ![Len(stack)].next = @ + 1, ![Len(stack)].got = Append(@, FromRegistry(module))]
                /\ UNCHANGED <<retErr, walkIdx, reads>>
           ELSE IF StatOk(modulePath)
           THEN EnsureLoadedHead(stack, modulePath, Top.chain)
           ELSE /\ retErr' = loadModule(loader, module).err
                /\ UNCHANGED <<stack, walkIdx, reads>>
    /\ UNCHANGED <<files, loader, optFail, pc, a, ret, evalOrder, ctorCalls, first, last, scope, inv>>

\* the unit on top executes its next load statement: the thread.Load closure
LoadStmt ==
    /\ pc = "load"
    /\ stack # <<>>
    /\ retErr = NoErr
    /\ Source(Top.path).bad # "syntax"
    /\ Top.next <= Len(Source(Top.path).loads)
    /\ LET module == Source(Top.path).loads[Top.next]
           modulePath == Clean(module)
       IN  IF StatOk(modulePath)
           THEN EnsureLoadedHead(stack, modulePath, Top.chain)
           ELSE IF loadModule(loader, module).err = NoErr
           THEN /\ stack' = [stack EXCEPT ![Len(stack)].next = @ + 1, ![Len(stack)].got = Append(@, FromRegistry(module))]
                /\ UNCHANGED <<retErr, walkIdx, reads>>
           ELSE /\ retErr' = loadModule(loader, module).err
                /\ UNCHANGED <<stack, walkIdx, reads>>
    /\ UNCHANGED <<files, loader, optFail, pc, a, ret, evalOrder, ctorCalls, first, last, scope, inv>>

\* ensureLoaded letting a panic of the evaluation go up to its caller
ExecFinish_NoRecover ==
    /\ pc = "load"
    /\ stack # <<>>
    /\ retErr = NoErr
    /\ Source(Top.path).bad = "syntax" \/ Top.next > Len(Source(Top.path).loads)
    /\ LET path == Top.path
           S == SubSeq(stack, 1, Len(stack) - 1)
           tail == EnsureLoadedTail(a, path, Source(path))
       IN  IF Source(path).bad = "panic"
           THEN /\ pc' = "panicked"
                /\ UNCHANGED <<retErr, stack, a, evalOrder, walkIdx, ctorCalls>>
           ELSE IF Source(path).bad # "no"
           THEN /\ retErr' = ErrExecFile(<<Source(path).bad>>)
                /\ stack' = S
                /\ UNCHANGED <<a, evalOrder, walkIdx, ctorCalls, pc>>
           ELSE /\ a' = tail.a
                /\ evalOrder' = Append(evalOrder, path)
                /\ ctorCalls' = ctorCalls \o tail.calls
                /\ pc' = pc
                /\ IF tail.err # NoErr
                   THEN /\ retErr' = tail.err
                        /\ stack' = S
                        /\ UNCHANGED walkIdx
                   ELSE ReturnNil(S, path, tail.a.globals)
    /\ UNCHANGED <<files, loader, optFail, ret, reads, first, last, scope, inv>>

\* the unit on top has executed its load statements: the rest of its
\* evaluation and the rest of ensureLoaded, with its deferred recover
ExecFinish ==
    /\ pc = "load"
    /\ stack # <<>>
    /\ retErr = NoErr
    /\ Source(Top.path).bad = "syntax" \/ Top.next > Len(Source(Top.path).loads)
    /\ LET path == Top.path
           S == SubSeq(stack, 1, Len(stack) - 1)
           tail == EnsureLoadedTail(a, path, Source(path))
       IN  IF Source(path).bad = "panic"
           THEN /\ retErr' = ErrPanicExec("boom")
                /\ stack' = S
                /\ UNCHANGED <<a, evalOrder, walkIdx, ctorCalls>>
           ELSE IF Source(path).bad # "no"
           THEN /\ retErr' = ErrExecFile(<<Source(path).bad>>)
                /\ stack' = S
                /\ UNCHANGED <<a, evalOrder, walkIdx, ctorCalls>>
           ELSE /\ a' = tail.a
                /\ evalOrder' = Append(evalOrder, path)
                /\ ctorCalls' = ctorCalls \o tail.calls
                /\ IF tail.err # NoErr
                   THEN /\ retErr' = tail.err
                        /\ stack' = S
                        /\ UNCHANGED walkIdx
                   ELSE ReturnNil(S, path, tail.a.globals)
    /\ UNCHANGED <<files, loader, optFail, pc, ret, reads, first, last, scope, inv>>

\* the importing unit goes on after a failed import
ReturnErr_Swallow ==
    /\ pc = "load"
    /\ retErr # NoErr
    /\ IF stack # <<>>
       THEN /\ stack' = [stack EXCEPT ![Len(stack)].next = @ + 1]
            /\ retErr' = NoErr
            /\ UNCHANGED <<pc, ret>>
       ELSE /\ pc' = "done"
            /\ ret' = [applet |-> <<>>, err |-> retErr]
            /\ UNCHANGED <<stack, retErr>>
    /\ UNCHANGED <<files, loader, optFail, walkIdx, a, evalOrder, reads, ctorCalls, first, last, scope, inv>>

\* an error reaches the caller of ensureLoaded: the evaluation of the
\* importing unit fails with it, or WalkDir, load and NewAppletFromFS return it
ReturnErr ==
    /\ pc = "load"
    /\ retErr # NoErr
    /\ IF stack # <<>>
       THEN /\ stack' = SubSeq(stack, 1, Len(stack) - 1)
            /\ retErr' = ErrExecFile(retErr)
            /\ UNCHANGED <<pc, ret>>
       ELSE /\ pc' = "done"
            /\ ret' = [applet |-> <<>>, err |-> retErr]
            /\ UNCHANGED <<stack, retErr>>
    /\ UNCHANGED <<files, loader, optFail, walkIdx, a, evalOrder, reads, ctorCalls, first, last, scope, inv>>

\* load returning without the check for the entry point
LoadFinish_NoCheck ==
    /\ pc = "load"
    /\ stack = <<>>
    /\ retErr = NoErr
    /\ walkIdx > Len(RootScripts)
    /\ pc' = "done"
    /\ ret' = [applet |-> <<a>>, err |-> NoErr]
    /\ UNCHANGED <<files, loader, optFail, walkIdx, stack, retErr, a, evalOrder, reads, ctorCalls, first, last, scope, inv>>

\* WalkDir is through: load checks for the entry point, NewAppletFromFS returns
LoadFinish ==
    /\ pc = "load"
    /\ stack = <<>>
    /\ retErr = NoErr
    /\ walkIdx > Len(RootScripts)
    /\ pc' = "done"
    /\ IF a.mainFun = <<>>
       THEN ret' = [applet |-> <<>>, err |-> ErrNoMain]
       ELSE ret' = [applet |-> <<a>>, err |-> NoErr]
    /\ UNCHANGED <<files, loader, optFail, walkIdx, stack, retErr, a, evalOrder, reads, ctorCalls, first, last, scope, inv>>

Next == ApplyOptions \/ WalkFile \/ LoadStmt \/ ExecFinish \/ ReturnErr \/ LoadFinish

Spec == Init /\ [][Next]_vars

\* the caller constructs the applet once more from the same file set and
\* options: NewAppletFromFS begins with a new Applet
Again ==
    /\ pc = "done"
    /\ first = <<>>
    /\ first' = <<[ret |-> ret, evalOrder |-> evalOrder]>>
    /\ pc' = "new"
    /\ walkIdx' = 1
    /\ stack' = <<>>
    /\ retErr' = NoErr
    /\ a' = NewApplet
    /\ ret' = [applet |-> <<>>, err |-> NoErr]
    /\ evalOrder' = <<>>
    /\ reads' = <<>>
    /\ ctorCalls' = <<>>
    /\ UNCHANGED <<files, loader, optFail, last, scope, inv>>

NextTwice == Next \/ Again

\* two constructions, one after the other, from the same file set and options
SpecTwice == Init /\ [][NextTwice]_vars

\* the construction under the scheduling of a sequential program: a step
\* that can be taken is taken
SpecLive == Init /\ [][Next]_vars /\ WF_vars(Next)

\* ------------------------------------------- calls on a constructed applet
\* longest list the entry point returns
MaxList == 3

\* render_runtime.Rootable
Rootable(v) == v.type = "Root"

\* Rootable.AsRenderRoot
AsRenderRoot(v) == [root |-> v.id]

ErrNotRoots(v) == <<"expected app implementation to return Root(s) but found:", v.type>>
ErrNotRootAt(v, i) == <<"expected app implementation to return Root(s) but found:", v.type, "(at index", ToString(i), ")">>

\* the positions of a list whose element is not rootable
NotRootable(es) == {i \in 1..Len(es) : ~Rootable(es[i])}

Min(S) == CHOOSE i \in S : \A j \in S : i <= j

\* RunWithConfig reporting the position of the element counting from one
RunWithConfig_OneBased(ap, interp) ==
    LET called == Call(ap.mainFun[1], interp)
        v == called.val[1]
    IN  IF called.err # NoErr THEN [roots |-> <<>>, err |-> called.err]
        ELSE IF Rootable(v) THEN [roots |-> << <<AsRenderRoot(v)>> >>, err |-> NoErr]
        ELSE IF v.type = "list"
        THEN IF NotRootable(v.elems) # {}
             THEN [roots |-> <<>>, err |-> ErrNotRootAt(v.elems[Min(NotRootable(v.elems))], Min(NotRootable(v.elems)))]
             ELSE [roots |-> << [i \in 1..Len(v.elems) |-> AsRenderRoot(v.elems[i])] >>, err |-> NoErr]
        ELSE [roots |-> <<>>, err |-> ErrNotRoots(v)]

\* RunWithConfig returning the roots converted so far along with the error
RunWithConfig_Partial(ap, interp) ==
    LET called == Call(ap.mainFun[1], interp)
        v == called.val[1]
    IN  IF called.err # NoErr THEN [roots |-> <<>>, err |-> called.err]
        ELSE IF Rootable(v) THEN [roots |-> << <<AsRenderRoot(v)>> >>, err |-> NoErr]
        ELSE IF v.type = "list"
        THEN IF NotRootable(v.elems) # {}
             THEN [roots |-> << [i \in 1..(Min(NotRootable(v.elems)) - 1) |-> AsRenderRoot(v.elems[i])] >>,
                   err |-> ErrNotRootAt(v.elems[Min(NotRootable(v.elems))], Min(NotRootable(v.elems)) - 1)]
             ELSE [roots |-> << [i \in 1..Len(v.elems) |-> AsRenderRoot(v.elems[i])] >>, err |-> NoErr]
        ELSE [roots |-> <<>>, err |-> ErrNotRoots(v)]

\* Applet.RunWithConfig, given what the interpreter does with the entry
\* point: [roots, err], roots <<>> for a nil list and <<l>> for the list l
RunWithConfig(ap, interp) ==
    LET called == Call(ap.mainFun[1], interp)
        v == called.val[1]
    IN  IF called.err # NoErr THEN [roots |-> <<>>, err |-> called.err]
        ELSE IF Rootable(v) THEN [roots |-> << <<AsRenderRoot(v)>> >>, err |-> NoErr]
        ELSE IF v.type = "list"
        THEN IF NotRootable(v.elems) # {}
             THEN [roots |-> <<>>, err |-> ErrNotRootAt(v.elems[Min(NotRootable(v.elems))], Min(NotRootable(v.elems)) - 1)]
             ELSE [roots |-> << [i \in 1..Len(v.elems) |-> AsRenderRoot(v.elems[i])] >>, err |-> NoErr]
        ELSE [roots |-> <<>>, err |-> ErrNotRoots(v)]

\* the pieces of a sequence of token sequences, one after the other
RECURSIVE Flatten(_)
Flatten(ss) == IF ss = <<>> THEN <<>> ELSE ss[1] \o Flatten(Tail(ss))

\* schema.EncodeOptions: a list of options becomes their JSON array
EncodeOptions(v) ==
    IF v.type = "list" /\ \A i \in 1..Len(v.elems) : v.elems[i].type = "Option"
    THEN [str |-> <<"[">> \o Flatten([i \in 1..Len(v.elems) |-> <<"{display:", v.elems[i].display, "}">>]) \o <<"]">>, err |-> NoErr]
    ELSE [str |-> <<>>, err |-> <<"options must be a list of Option but found:", v.type>>]

\* starlark.AsString
AsString(v) == IF v.type = "string" THEN [str |-> v.s, ok |-> TRUE] ELSE [str |-> <<>>, ok |-> FALSE]

ErrNoHandler(handlerName) == <<"no exported handler named", handlerName>>
ErrCallingHandler(handlerName, inner) == <<"calling schema handler", handlerName>> \o inner
ErrNotString(fn) == <<"expected", fn.name, "to return a string or string-like value">>
ErrUnexpected(handlerName) == <<"a very unexpected error happened for handler", handlerName>>

\* what CallSchemaHandler does: its result string (a sequence of tokens, <<>>
\* the empty string) and error, whether it panicked instead of returning, and
\* whether it invoked the script function
Outcome(str, err, called) == [result |-> str, err |-> err, panic |-> FALSE, called |-> called]
NilDeref == [result |-> <<>>, err |-> NoErr, panic |-> TRUE, called |-> FALSE]

\* CallSchemaHandler taking whatever AsString gives for the string
CallSchemaHandler_Unchecked(app, handlerName, interp) ==
    IF app.schema = <<>> THEN NilDeref
    ELSE IF handlerName \notin DOMAIN app.schema[1].Handlers THEN Outcome(<<>>, ErrNoHandler(handlerName), FALSE)
    ELSE LET handler == app.schema[1].Handlers[handlerName]
             called == Call(handler.Function, interp)
             resultVal == called.val[1]
             sch == FromStarlark(resultVal, app.globals[app.schemaFile])
         IN  IF called.err # NoErr THEN Outcome(<<>>, ErrCallingHandler(handlerName, called.err), TRUE)
             ELSE CASE handler.ReturnType = ReturnOptions ->
                         IF EncodeOptions(resultVal).err # NoErr
                         THEN Outcome(<<>>, EncodeOptions(resultVal).err, TRUE)
                         ELSE Outcome(EncodeOptions(resultVal).str, NoErr, TRUE)
                    [] handler.ReturnType = ReturnSchema ->
                         IF sch.err # NoErr
                         THEN Outcome(<<>>, sch.err, TRUE)
                         ELSE Outcome(MarshalSchema(sch.schema[1]), NoErr, TRUE)
                    [] handler.ReturnType = ReturnString -> Outcome(AsString(resultVal).str, NoErr, TRUE)
                    [] OTHER -> Outcome(<<>>, ErrUnexpected(handlerName), TRUE)

\* Applet.CallSchemaHandler, given what the interpreter does with the handler
CallSchemaHandler(app, handlerName, interp) ==
    IF app.schema = <<>> THEN NilDeref
    ELSE IF handlerName \notin DOMAIN app.schema[1].Handlers THEN Outcome(<<>>, ErrNoHandler(handlerName), FALSE)
    ELSE LET handler == app.schema[1].Handlers[handlerName]
             called == Call(handler.Function, interp)
             resultVal == called.val[1]
             sch == FromStarlark(resultVal, app.globals[app.schemaFile])
         IN  IF called.err # NoErr THEN Outcome(<<>>, ErrCallingHandler(handlerName, called.err), TRUE)
             ELSE CASE handler.ReturnType = ReturnOptions ->
                         IF EncodeOptions(resultVal).err # NoErr
                         THEN Outcome(<<>>, EncodeOptions(resultVal).err, TRUE)
                         ELSE Outcome(EncodeOptions(resultVal).str, NoErr, TRUE)
                    [] handler.ReturnType = ReturnSchema ->
                         IF sch.err # NoErr
                         THEN Outcome(<<>>, sch.err, TRUE)
                         ELSE Outcome(MarshalSchema(sch.schema[1]), NoErr, TRUE)
                    [] handler.ReturnType = ReturnString ->
                         IF ~AsString(resultVal).ok
                         THEN Outcome(<<>>, ErrNotString(handler.Function), TRUE)
                         ELSE Outcome(AsString(resultVal).str, NoErr, TRUE)
                    [] OTHER -> Outcome(<<>>, ErrUnexpected(handlerName), TRUE)

\* Applet.GetSchema: string(app.schemaJSON)
GetSchema(app) == IF app.schemaJSON = <<>> THEN <<>> ELSE app.schemaJSON[1]

\* the values an element of a returned list may be
Elems == {RootV(1), RootV(2), StrV("derp")}

\* what the interpreter may do with the entry point
MainOutcomes ==
    {Returned(v) : v \in {RootV(1), StrV("derp"), NoneV, IntV, TupleV(<<RootV(1)>>)}}
    \cup {Returned(ListV(es)) : es \in SeqsUpTo(Elems, MaxList)}
    \cup {EvalError("fail"), OtherError("fail"), Panic("boom")}

\* what the interpreter may do with a schema handler
HandlerOutcomes ==
    {Returned(v) : v \in {StrV("derp"), IntV, NoneV, ListV(<<>>), ListV(<<OptionV("A"), OptionV("B")>>),
                          ListV(<<OptionV("A"), IntV>>), SchemaV(<<>>)}}
    \cup {EvalError("fail"), Panic("boom")}

\* the handler names a caller asks for
HandlerNames == {"foobar", "get_opts", "more", "missing"}

Constructed == pc = "done" /\ ret.applet # <<>>

\* no call on the applet is waiting for its caller to take the result
Idle == last.op = "none"

\* a caller runs the applet
Run ==
    /\ Constructed
    /\ Idle
    /\ \E interp \in MainOutcomes :
         last' = [op |-> "Run", interp |-> interp, out |-> RunWithConfig(ret.applet[1], interp)]
    /\ UNCHANGED <<files, loader, optFail, pc, walkIdx, stack, retErr, a, ret, evalOrder, reads, ctorCalls, first, scope, inv>>

\* a nested-schema handler whose parsed schema replaces the schema of the applet
CallHandler_Stores ==
    /\ Constructed
    /\ Idle
    /\ \E handlerName \in HandlerNames : \E interp \in HandlerOutcomes :
         LET out == CallSchemaHandler(ret.applet[1], handlerName, interp)
             stored == IF ~out.panic /\ out.err = NoErr /\ interp.kind = "value" /\ interp.val.type = "Schema"
                       THEN [a EXCEPT !.schema = FromStarlark(interp.val, a.globals[a.schemaFile]).schema]
                       ELSE a
         IN  /\ last' = [op |-> "CallSchemaHandler", handler |-> handlerName, interp |-> interp, out |-> out]
             /\ a' = stored
             /\ ret' = [ret EXCEPT !.applet = <<stored>>]
    /\ UNCHANGED <<files, loader, optFail, pc, walkIdx, stack, retErr, evalOrder, reads, ctorCalls, first, scope, inv>>

\* a caller calls a schema handler
CallHandler ==
    /\ Constructed
    /\ Idle
    /\ \E handlerName \in HandlerNames : \E interp \in HandlerOutcomes :
         last' = [op |-> "CallSchemaHandler", handler |-> handlerName, interp |-> interp,
                  out |-> CallSchemaHandler(ret.applet[1], handlerName, interp)]
    /\ UNCHANGED <<files, loader, optFail, pc, walkIdx, stack, retErr, a, ret, evalOrder, reads, ctorCalls, first, scope, inv>>

\* a caller asks for the schema
AskSchema ==
    /\ Constructed
    /\ Idle
    /\ last' = [op |-> "GetSchema", out |-> GetSchema(ret.applet[1])]
    /\ UNCHANGED <<files, loader, optFail, pc, walkIdx, stack, retErr, a, ret, evalOrder, reads, ctorCalls, first, scope, inv>>

\* the caller has taken the result of its call
CallDone ==
    /\ Constructed
    /\ ~Idle
    /\ last' = [op |-> "none"]
    /\ UNCHANGED <<files, loader, optFail, pc, walkIdx, stack, retErr, a, ret, evalOrder, reads, ctorCalls, first, scope, inv>>

NextApi == Next \/ Run \/ CallHandler \/ AskSchema \/ CallDone

\* construction followed by calls on the applet
SpecApi == Init /\ [][NextApi]_vars

\* -------------------------------------------- Applet.Call under cancellation
\* the message of the EvalError a thread cancelled with a reason fails with
CancelMsg(cause) ==
    CASE cause = "context canceled" -> "Starlark computation cancelled: context canceled"
      [] cause = "context deadline exceeded" -> "Starlark computation cancelled: context deadline exceeded"
      [] OTHER -> "Starlark computation cancelled"

\* what the interpreter does with a call it is not stopped in
CallPlans == {Returned(RootV(1)), EvalError("fail"), Panic("boom")}

\* the applet NewAppletFromFS returns for a.star defining main and nothing else
MainOnly == [PlainUnit EXCEPT !.main = TRUE]
LoadedMainOnly == EnsureLoadedTail(EnsureLoadedTail(NewApplet, "a.star", MainOnly).a, "b.star", PlainUnit).a

\* a constructed applet on which no call has been made
InitCall ==
    /\ files = FileSet(MainOnly, PlainUnit, PlainUnit)
    /\ loader = <<>>
    /\ optFail = FALSE
    /\ pc = "done"
    /\ walkIdx = Len(RootScripts) + 1
    /\ stack = <<>>
    /\ retErr = NoErr
    /\ a = LoadedMainOnly
    /\ ret = [applet |-> <<LoadedMainOnly>>, err |-> NoErr]
    /\ evalOrder = RootScripts
    /\ reads = RootScripts
    /\ ctorCalls = <<>>
    /\ first = <<>>
    /\ last = [op |-> "none"]
    /\ scope = [c \in Ctxs |-> <<>>]
    /\ inv = [i \in Invocations |-> FreeInv]

\* the callable of the invocations: the entry point of the applet
Callable == ret.applet[1].mainFun[1]

\* Applet.Call begins: newThread makes the thread of this invocation,
\* context.AfterFunc registers its watcher, starlark.Call starts
CallStart ==
    /\ pc = "done"
    /\ ret.applet # <<>>
    /\ \E i \in Invocations : \E c \in Ctxs : \E plan \in CallPlans : \E n \in 1..MaxCheckpoints :
         /\ inv[i].st = "free"
         /\ inv' = [inv EXCEPT ![i] = [FreeInv EXCEPT !.st = "running", !.ctx = c, !.plan = plan, !.left = n, !.armed = TRUE]]
    /\ UNCHANGED <<files, loader, optFail, pc, walkIdx, stack, retErr, a, ret, evalOrder, reads, ctorCalls, first, last, scope>>

\* a caller's scope is cancelled, with a cause
Cancel ==
    /\ pc = "done"
    /\ \E c \in Ctxs : \E cause \in Causes :
         /\ scope[c] = <<>>
         /\ scope' = [scope EXCEPT ![c] = <<cause>>]
    /\ UNCHANGED <<files, loader, optFail, pc, walkIdx, stack, retErr, a, ret, evalOrder, reads, ctorCalls, first, last, inv>>

\* what Thread.Cancel leaves as the reason of a thread: the first reason stays
Cancelled(reason, msg) == IF reason = <<>> THEN <<msg>> ELSE reason

\* a watcher cancelling every thread in progress
WatcherFire_Shared ==
    /\ \E i \in Invocations :
         /\ inv[i].armed
         /\ scope[inv[i].ctx] # <<>>
         /\ inv' = [j \in Invocations |->
                      IF j = i
                      THEN [inv[i] EXCEPT !.armed = FALSE, !.fires = @ + 1,
                                          !.reason = Cancelled(@, scope[inv[i].ctx][1]),
                                          !.firedAt = IF inv[i].st = "running" THEN inv[i].passed ELSE @]
                      ELSE IF inv[j].st = "running"
                      THEN [inv[j] EXCEPT !.reason = Cancelled(@, scope[inv[i].ctx][1])]
                      ELSE inv[j]]
    /\ UNCHANGED <<files, loader, optFail, pc, walkIdx, stack, retErr, a, ret, evalOrder, reads, ctorCalls, first, last, scope>>

\* a watcher cancelling its thread without the cause
WatcherFire_Generic ==
    /\ \E i \in Invocations :
         /\ inv[i].armed
         /\ scope[inv[i].ctx] # <<>>
         /\ inv' = [inv EXCEPT ![i].armed = FALSE, ![i].fires = @ + 1,
                               ![i].reason = Cancelled(@, "cancelled"),
                               ![i].firedAt = IF inv[i].st = "running" THEN inv[i].passed ELSE @]
    /\ UNCHANGED <<files, loader, optFail, pc, walkIdx, stack, retErr, a, ret, evalOrder, reads, ctorCalls, first, last, scope>>

\* the function given to context.AfterFunc runs, in its own goroutine, once
\* the context is done: t.Cancel(context.Cause(ctx).Error()) on the thread of
\* its invocation, whether or not that invocation has returned
WatcherFire ==
    /\ \E i \in Invocations :
         /\ inv[i].armed
         /\ scope[inv[i].ctx] # <<>>
         /\ inv' = [inv EXCEPT ![i].armed = FALSE, ![i].fires = @ + 1,
                               ![i].reason = Cancelled(@, scope[inv[i].ctx][1]),
                               ![i].firedAt = IF inv[i].st = "running" THEN inv[i].passed ELSE @]
    /\ UNCHANGED <<files, loader, optFail, pc, walkIdx, stack, retErr, a, ret, evalOrder, reads, ctorCalls, first, last, scope>>

\* the interpreter reaches a checkpoint: a cancelled thread fails with an
\* EvalError carrying the reason and Call returns, another thread goes on
Checkpoint ==
    /\ \E i \in Invocations :
         /\ inv[i].st = "running"
         /\ inv[i].left > 0
         /\ IF inv[i].reason # <<>>
            THEN inv' = [inv EXCEPT ![i].st = "returned", ![i].doneAt = scope[inv[i].ctx],
                                    ![i].out = Call(Callable, EvalError(CancelMsg(inv[i].reason[1])))]
            ELSE inv' = [inv EXCEPT ![i].left = @ - 1, ![i].passed = @ + 1]
    /\ UNCHANGED <<files, loader, optFail, pc, walkIdx, stack, retErr, a, ret, evalOrder, reads, ctorCalls, first, last, scope>>

\* the interpreter is past its last checkpoint: it finishes as planned and
\* Call returns, through its deferred recover when the interpreter panics
Finish ==
    /\ \E i \in Invocations :
         /\ inv[i].st = "running"
         /\ inv[i].left = 0
         /\ inv' = [inv EXCEPT ![i].st = "returned", ![i].doneAt = scope[inv[i].ctx],
                               ![i].out = Call(Callable, inv[i].plan)]
    /\ UNCHANGED <<files, loader, optFail, pc, walkIdx, stack, retErr, a, ret, evalOrder, reads, ctorCalls, first, last, scope>>

NextCall == CallStart \/ Cancel \/ WatcherFire \/ Checkpoint \/ Finish

\* concurrent invocations of Applet.Call on a constructed applet
SpecCall == InitCall /\ [][NextCall]_vars

\* ------------------------------------------------- vocabulary of the claims
IsSuffix(s, t) == Len(s) <= Len(t) /\ SubSeq(t, Len(t) - Len(s) + 1, Len(t)) = s

\* the files of the file set a unit names in its load statements
FileImports(p) == {Clean(Source(p).loads[i]) : i \in 1..Len(Source(p).loads)} \cap Files

RECURSIVE Closure(_)
Closure(S) == LET T == S \cup UNION {FileImports(p) : p \in S} IN IF T = S THEN S ELSE Closure(T)

\* the files a unit imports, directly or through other files
ReachFrom(p) == Closure(FileImports(p))

\* the files the load can reach: the root scripts and what they import
Reached == Closure(Range(RootScripts))

\* some unit reached from a root file imports another that imports it back
CycleReached == \E A, B \in Reached : A # B /\ B \in ReachFrom(A) /\ A \in ReachFrom(B)

\* a load statement resolves: to a file of the file set or through loadModule
Resolves(module) == ReadOk(Clean(module)) \/ (~StatOk(Clean(module)) /\ loadModule(loader, module).err = NoErr)

\* a unit whose own statements raise no error when they are evaluated
EvaluatesAlone(p) == Source(p).bad = "no" /\ \A i \in 1..Len(Source(p).loads) : Resolves(Source(p).loads[i])

MainUnits == {p \in Scripts : Source(p).main}
SchemaUnits == {p \in Scripts : Source(p).schema # "none"}

\* no error other than a cycle can stop the load of the file set
NoOtherError ==
    /\ ~optFail
    /\ \A p \in Scripts : EvaluatesAlone(p) /\ Source(p).schema \in {"none", "ok"}
    /\ Cardinality(MainUnits) <= 1
    /\ Cardinality(SchemaUnits) <= 1

Failed == pc = "done" /\ ret.applet = <<>> /\ ret.err # NoErr
Succeeded == pc = "done" /\ ret.applet # <<>> /\ ret.err = NoErr

\* n evaluation failures wrapped around an error
RECURSIVE Wrapped(_, _)
Wrapped(n, e) == IF n = 0 THEN e ELSE ErrExecFile(Wrapped(n - 1, e))

NoDup(c) == \A i, j \in 1..Len(c) : c[i] = c[j] => i = j

\* the sequences of files without repetition
Chains == {c \in SeqsUpTo(Scripts, Cardinality(Scripts)) : c # <<>> /\ NoDup(c)}

\* c is the load chain of the root file being loaded down to a unit that imports p again
CycleChain(c, p) ==
    /\ walkIdx \in 1..Len(RootScripts)
    /\ c[1] = RootScripts[walkIdx]
    /\ \A i \in 1..(Len(c) - 1) : c[i + 1] \in FileImports(c[i])
    /\ p \in FileImports(c[Len(c)])
    /\ p \in Range(c)

\* the error is the circular-dependency error of some load chain, as the
\* evaluation of every unit of the chain passes it on
IsCircularErr(e) == \E c \in Chains : \E p \in Scripts : CycleChain(c, p) /\ e = Wrapped(Len(c), ErrCircular(c, p))

\* the units in progress
InProgress == {stack[i].path : i \in 1..Len(stack)}

\* C1 as stated: whenever a unit reached from a root file is on an import
\* cycle (and every unit evaluates on its own), construction fails with the
\* circular-dependency error
C1_AsStated ==
    (pc = "done" /\ CycleReached /\ \A p \in Scripts : Source(p).bad = "no" /\ Source(p).schema = "none") => IsCircularErr(ret.err)

\* C1 (amended): a file set with a cycle reached from a root file is never
\* constructed; when no other load error can stop the load the error is the
\* circular-dependency error listing the load chain from the root file being
\* loaded, in import order, followed by the repeated path; and a unit in
\* progress never has an export mapping an import could be satisfied from
C1_CycleFails ==
    /\ (pc = "done" /\ CycleReached) => Failed
    /\ (pc = "done" /\ CycleReached /\ NoOtherError) => IsCircularErr(ret.err)
    /\ InProgress \cap DOMAIN a.globals = {}
    /\ \A p \in DOMAIN a.globals : FileImports(p) \subseteq DOMAIN a.globals

\* a cycle through an intermediate file was reported with its full chain
C1_Witness ==
    /\ Failed
    /\ NoOtherError
    /\ \E c \in Chains : Len(c) = 3 /\ CycleChain(c, c[2]) /\ ret.err = Wrapped(3, ErrCircular(c, c[2]))

\* the units evaluated so far that export main, or the schema constructor
MainsLoaded == {p \in DOMAIN a.globals : "main" \in a.globals[p]}
SchemasLoaded == {p \in DOMAIN a.globals : SchemaFunctionName \in a.globals[p]}

\* the error the load is failing with, or has failed with
LoadErr == IF pc = "done" THEN ret.err ELSE retErr

\* the root files whose source defines main
RootMains == {p \in Range(RootScripts) : Source(p).main}

\* C2 as stated: two root files that each evaluate on their own and export
\* main make construction fail with the duplicate-main error naming both
C2_AsStated ==
    (pc = "done" /\ \A p \in Range(RootScripts) : Source(p).main /\ EvaluatesAlone(p) /\ Source(p).schema # "malformed")
        => \E p, q \in RootMains : p # q /\ IsSuffix(ErrMultipleMain(p, q), ret.err)

\* C2 (amended): an applet with two or more root files exporting main is
\* never constructed; as soon as two units exporting main have both been
\* evaluated, in whatever order the walk and the imports reach them, the load
\* fails with the duplicate-main error naming the unit just evaluated and the
\* unit recorded earlier (an error that stops the load before the second of
\* them is evaluated is reported instead)
C2_DuplicateMain ==
    /\ (pc = "done" /\ Cardinality(RootMains) >= 2) => Failed
    /\ Cardinality(MainsLoaded) >= 2 =>
          /\ a.mainFile \in MainsLoaded
          /\ evalOrder[Len(evalOrder)] \in MainsLoaded \ {a.mainFile}
          /\ IsSuffix(ErrMultipleMain(evalOrder[Len(evalOrder)], a.mainFile), LoadErr)

\* a.star imports b.star, both export main: the duplicate is found in a.star
C2_Witness ==
    /\ Failed
    /\ RootMains = {"a.star", "b.star"}
    /\ ret.err = ErrMultipleMain("a.star", "b.star")

\* C3: exactly one root file exports main, every unit reads and evaluates
\* without error (its schema constructor included), imports form no cycle:
\* the applet is constructed with that function as its entry point
C3_OneRootMain ==
    (/\ pc = "done"
     /\ ~optFail
     /\ Cardinality(RootMains) = 1
     /\ \A p \in Scripts : EvaluatesAlone(p) /\ Source(p).schema \in {"none", "ok"}
     /\ Cardinality(SchemaUnits) <= 1
     /\ \A p \in Scripts : p \notin ReachFrom(p))
        => /\ Succeeded
           /\ \E p \in RootMains : ret.applet[1].mainFile = p /\ ret.applet[1].mainFun = <<Fun(p, "main")>>

\* the first unit in the order of evaluation that exports a name, "" if none
FirstWith(name) ==
    LET idx == {i \in 1..Len(evalOrder) : name \in a.globals[evalOrder[i]]}
    IN  IF idx = {} THEN "" ELSE evalOrder[CHOOSE i \in idx : \A j \in idx : i <= j]

C5_NoMain ==
    /\ (pc = "done" /\ walkIdx > Len(RootScripts) /\ MainsLoaded = {}) => ret = [applet |-> <<>>, err |-> <<"no main() function found in", ID>>]
    /\ (pc = "done" /\ ret.applet # <<>>) => ret.applet[1].mainFun # <<>>

\* three units were evaluated, none exports main
C5_Witness ==
    /\ pc = "done"
    /\ Len(evalOrder) = 3
    /\ MainsLoaded = {}
    /\ ret.applet = <<>>

\* what NewAppletFromFS returns: an applet or an error, never both or neither,
\* and an applet only when every unit it loaded evaluated without error
C6_Returned ==
    pc = "done" =>
        /\ (ret.applet # <<>>) <=> (ret.err = NoErr)
        /\ ret.applet # <<>> =>
              /\ ret.applet[1] = a
              /\ \A p \in DOMAIN a.globals : EvaluatesAlone(p) /\ Source(p).schema \in {"none", "ok"}
              /\ Cardinality(MainsLoaded) = 1
              /\ Cardinality(SchemasLoaded) <= 1
              /\ DOMAIN a.globals = Reached

\* once an error is being returned no unit is entered or evaluated any more
\* and the error is what the construction ends with
C6_Stops ==
    retErr # NoErr =>
        /\ a' = a
        /\ evalOrder' = evalOrder
        /\ retErr' # NoErr
        /\ Len(stack') < Len(stack) \/ pc' = "done"
        /\ pc' = "done" => ret' = [applet |-> <<>>, err |-> retErr]

\* C6: construction is atomic, an applet with no error or no applet with an
\* error; the first error of a load stops it, no further unit is evaluated and
\* no partially loaded applet is returned
C6_Atomic == [](C6_Returned) /\ [][C6_Stops]_vars

\* a.star failed in its own statements, b.star was never evaluated
C6_Witness ==
    /\ Failed
    /\ Source("a.star").bad = "runtime"
    /\ Source("b.star").main
    /\ evalOrder = <<>>
    /\ ret.err = <<"starlark.ExecFile:", "runtime">>

\* the entry point returned a value to the last Run
RunReturned == last.op = "Run" /\ last.interp.kind = "value"

\* C7: Run accepts exactly a rootable value, giving one root, and a list of
\* rootable values, giving their roots in order; any other value fails with an
\* error naming its type, and a list with an element that is not rootable
\* fails naming the type and the zero-based index of the first such element
C7_Classifies ==
    RunReturned =>
        LET v == last.interp.val
            out == last.out
        IN  IF v.type = "Root"
            THEN out.err = NoErr /\ out.roots = << <<[root |-> v.id]>> >>
            ELSE IF v.type = "list" /\ \A i \in 1..Len(v.elems) : v.elems[i].type = "Root"
            THEN /\ out.err = NoErr
                 /\ Len(out.roots[1]) = Len(v.elems)
                 /\ \A i \in 1..Len(v.elems) : out.roots[1][i] = [root |-> v.elems[i].id]
            ELSE IF v.type = "list"
            THEN \E i \in 1..Len(v.elems) :
                    /\ v.elems[i].type # "Root"
                    /\ \A j \in 1..(i - 1) : v.elems[j].type = "Root"
                    /\ out.roots = <<>>
                    /\ out.err = <<"expected app implementation to return Root(s) but found:", v.elems[i].type, "(at index", ToString(i - 1), ")">>
            ELSE /\ out.roots = <<>>
                 /\ out.err = <<"expected app implementation to return Root(s) but found:", v.type>>

\* a list of three whose second element is a string is refused at index 1
C7_Witness ==
    /\ RunReturned
    /\ last.interp.val = ListV(<<RootV(1), StrV("derp"), RootV(2)>>)
    /\ last.out.err = <<"expected app implementation to return Root(s) but found:", "string", "(at index", "1", ")">>

\* C8: Run returns a non-nil list of roots and no error, or a nil list and an
\* error; the empty list is returned as an empty, non-nil list
C8_RootsOrError ==
    last.op = "Run" =>
        /\ (last.out.roots # <<>> /\ last.out.err = NoErr) \/ (last.out.roots = <<>> /\ last.out.err # NoErr)
        /\ (last.interp.kind = "value" /\ last.interp.val = ListV(<<>>)) => last.out = [roots |-> << <<>> >>, err |-> NoErr]

\* a list with a root and then a string: an error and no roots
C8_Witness ==
    /\ RunReturned
    /\ last.interp.val = ListV(<<RootV(1), StrV("derp")>>)
    /\ last.out.roots = <<>>
    /\ last.out.err # NoErr

\* the handler table of the constructed applet
HandlerTable == IF a.schema = <<>> THEN <<>> ELSE a.schema[1].Handlers

\* C9: on a constructed applet, with or without a schema constructor, a
\* handler name absent from the handler table gives an error naming that name
\* and the empty result, and no script function is invoked
C9_UnknownHandler ==
    (last.op = "CallSchemaHandler" /\ last.handler \notin DOMAIN HandlerTable) =>
        /\ ~last.out.panic
        /\ last.out.result = <<>>
        /\ last.out.err = <<"no exported handler named", last.handler>>
        /\ ~last.out.called

\* the last call reached a registered handler, which returned a value
HandlerReturned ==
    /\ last.op = "CallSchemaHandler"
    /\ last.handler \in DOMAIN HandlerTable
    /\ last.interp.kind = "value"

NaturalOut(plan) ==
    CASE plan.kind = "value" -> [val |-> <<plan.val>>, err |-> NoErr]
      [] plan.kind = "evalerr" -> [val |-> <<>>, err |-> <<"backtrace:", plan.msg>>]
      [] plan.kind = "panic" -> [val |-> <<>>, err |-> <<"panic while running", "app", plan.msg>>]

\* the call error of a Call stopped after its context was cancelled with a cause
CancelOut(cause) ==
    [val |-> <<>>,
     err |-> <<"backtrace:", IF cause = "context canceled"
                             THEN "Starlark computation cancelled: context canceled"
                             ELSE "Starlark computation cancelled: context deadline exceeded">>]

Returns == {i \in Invocations : inv[i].st = "returned"}

\* the watcher of the invocation cancelled its thread while the interpreter
\* still had a checkpoint to pass
FiredInTime(i) == inv[i].firedAt >= 0 /\ inv[i].firedAt < inv[i].passed + inv[i].left

\* C11 as stated: a Call whose scope was cancelled before the interpreter
\* finished, under every interleaving, returns no value and the call error
\* carrying the cause of the cancellation
C11_AsStated ==
    \A i \in Returns : inv[i].doneAt # <<>> => inv[i].out = CancelOut(inv[i].doneAt[1])

\* C11 (amended): a Call whose watcher cancelled the thread while the
\* interpreter still had a checkpoint to pass returns no value and the call
\* error carrying the cause of its own scope; any other Call, also one whose
\* scope was cancelled but whose watcher ran too late, returns what the
\* interpreter gave; a cancellation error is returned only for a cancelled scope
C11_Cancelled ==
    \A i \in Returns :
        /\ FiredInTime(i) => scope[inv[i].ctx] # <<>> /\ inv[i].out = CancelOut(scope[inv[i].ctx][1])
        /\ ~FiredInTime(i) => inv[i].out = NaturalOut(inv[i].plan)
        /\ (\E cause \in Causes : inv[i].out = CancelOut(cause)) => inv[i].doneAt # <<>>

\* a call that would have returned a value was stopped at its second
\* checkpoint by a deadline
C11_Witness ==
    \E i \in Returns :
        /\ inv[i].plan.kind = "value"
        /\ inv[i].firedAt = 1
        /\ inv[i].out = CancelOut("context deadline exceeded")

\* the unit on top of the stack is through its load statements and panics
PanicsNow == pc = "load" /\ stack # <<>> /\ retErr = NoErr /\ Top.next > Len(Source(Top.path).loads) /\ Source(Top.path).bad = "panic"

\* a panic of the evaluation of a unit is returned by its ensureLoaded as an error
C12_Boundary ==
    PanicsNow =>
        /\ retErr' = <<"panic while executing", "app", "boom">>
        /\ stack' = SubSeq(stack, 1, Len(stack) - 1)
        /\ a' = a
        /\ pc' = "load"

\* what the callers get after a panic
C12_Returned ==
    /\ pc \in {"new", "load", "done"}
    /\ (pc = "done" /\ "panic while executing" \in Range(ret.err)) => ret.applet = <<>>
    /\ \A p \in DOMAIN a.globals :
          (Source(p).schema = "panic" /\ a.schemaFile = p) =>
              /\ a.schema = <<>>
              /\ IsSuffix(<<"calling schema function for", "app", "panic while running", "app", "boom">>, LoadErr)
              /\ pc = "done" => ret.applet = <<>>
    /\ (last.op = "Run" /\ last.interp.kind = "panic") =>
          last.out = [roots |-> <<>>, err |-> <<"panic while running", "app", last.interp.msg>>]
    /\ (last.op = "CallSchemaHandler" /\ last.handler \in DOMAIN HandlerTable /\ last.interp.kind = "panic") =>
          /\ ~last.out.panic
          /\ last.out.result = <<>>
          /\ last.out.err = <<"calling schema handler", last.handler, "panic while running", "app", last.interp.msg>>

\* C12: a panic of the interpreter inside Call, or of the evaluation of a
\* unit inside ensureLoaded, is recovered there and returned as an error
\* naming the applet and the message; NewAppletFromFS, Run and
\* CallSchemaHandler return that error and no value
C12_Recovered == [](C12_Returned) /\ [][C12_Boundary]_vars

\* lib/c.star panicked while a.star was importing it
C12_Witness ==
    /\ Failed
    /\ Source("lib/c.star").bad = "panic"
    /\ evalOrder = <<>>
    /\ ret.err = <<"starlark.ExecFile:", "panic while executing", "app", "boom">>

\* the names the override of the model resolves, and the built-in names
\* among those a load statement of the model requests
OverrideResolves(module) == loader # <<>> /\ module \in {"nope.star", "a.star", "render.star"}
IsBuiltinName(module) == module \in {"render.star", "time.star"}

\* the entries of the file set, files and directories
InFileSet(p) == p \in {".", "lib", "a.star", "b.star", "lib/c.star", "notes.txt"}

\* who must answer a request for a module
Resolver(module) ==
    IF InFileSet(Clean(module)) THEN [from |-> "file", name |-> Clean(module)]
    ELSE IF OverrideResolves(module) THEN [from |-> "override", name |-> module]
    ELSE IF IsBuiltinName(module) THEN [from |-> "builtin", name |-> module]
    ELSE [from |-> "none", name |-> module]

\* every binding a unit in progress has got came from the resolver first in order
C13_Bound ==
    \A d \in 1..Len(stack) :
        /\ Len(stack[d].got) = stack[d].next - 1
        /\ \A k \in 1..Len(stack[d].got) :
              /\ stack[d].got[k] = Resolver(Source(stack[d].path).loads[k])
              /\ stack[d].got[k].from = "file" => stack[d].got[k].name \in DOMAIN a.globals

\* the unit on top of the stack is about to execute a load statement
LoadsNow == pc = "load" /\ stack # <<>> /\ retErr = NoErr /\ Source(Top.path).bad # "syntax" /\ Top.next <= Len(Source(Top.path).loads)

\* a request for a name of the file set goes to ensureLoaded and nowhere
\* else; a request nobody answers fails with the invalid-module error
C13_Step ==
    LoadsNow =>
        LET module == Source(Top.path).loads[Top.next]
            r == Resolver(module)
        IN  /\ r.from = "none" => retErr' = <<"invalid module:", module>> /\ stack' = stack
            /\ r.from \in {"override", "builtin"} =>
                  /\ retErr' = NoErr
                  /\ stack' = [stack EXCEPT ![Len(stack)].next = @ + 1, ![Len(stack)].got = Append(@, r)]
                  /\ reads' = reads
            /\ r.from = "file" =>
                  \/ retErr' = NoErr /\ stack' = [stack EXCEPT ![Len(stack)].next = @ + 1, ![Len(stack)].got = Append(@, r)]
                  \/ retErr' = NoErr /\ Len(stack') = Len(stack) + 1 /\ stack'[Len(stack')].path = r.name
                  \/ retErr' # NoErr /\ retErr'[1] \in {"circular dependency detected:", "reading"} /\ stack' = stack

\* C13: a requested name that is an entry of the file set is resolved by
\* loading that file, without the override or the built-in table; any other
\* name goes to the override first, if one is configured, then, on any error
\* of the override, to the built-in table; a name nobody resolves fails with
\* the invalid-module error naming the requested import
C13_Order == [](C13_Bound) /\ [][C13_Step]_vars

\* a.star has loaded a sibling file that the override also resolves, a
\* module that the override and the built-in table both have, and a built-in
\* module the override fails on
C13_Witness ==
    /\ loader # <<>>
    /\ stack # <<>>
    /\ Top.path = "b.star"
    /\ Top.got = <<[from |-> "file", name |-> "a.star"], [from |-> "override", name |-> "render.star"]>>

\* a built-in module was bound after the override failed on it
C13_FallThrough ==
    /\ loader # <<>>
    /\ stack # <<>>
    /\ Top.got = <<[from |-> "builtin", name |-> "time.star"]>>

C15_Once ==
    /\ NoDup(reads)
    /\ NoDup(evalOrder)
    /\ DOMAIN a.globals = Range(evalOrder)
    /\ \A p \in DOMAIN a.globals : Source(p).bad = "no" /\ p \notin InProgress /\ p \in Range(reads)

\* a stored mapping stays as it is; a request for a stored path evaluates nothing
C15_Kept ==
    /\ \A p \in DOMAIN a.globals : p \in DOMAIN a'.globals /\ a'.globals[p] = a.globals[p]
    /\ (LoadsNow /\ Clean(Source(Top.path).loads[Top.next]) \in DOMAIN a.globals) =>
          /\ reads' = reads
          /\ evalOrder' = evalOrder
          /\ a' = a
          /\ retErr' = NoErr
          /\ stack' = [stack EXCEPT ![Len(stack)].next = @ + 1,
                                    ![Len(stack)].got = Append(@, [from |-> "file", name |-> Clean(Source(Top.path).loads[Top.next])])]

\* C15: during a construction every unit is read and evaluated at most once,
\* whoever imports it and however it is first reached; a request for a path
\* whose mapping is stored returns it without evaluation; a mapping is stored
\* only after the evaluation of its unit went through and is never replaced
\* or removed
C15_EvaluatedOnce == [](C15_Once) /\ [][C15_Kept]_vars

\* a.star and b.star both import lib/c.star, which was evaluated once
C15_Witness ==
    /\ Succeeded
    /\ FileImports("a.star") = {"lib/c.star"}
    /\ FileImports("b.star") = {"lib/c.star"}
    /\ evalOrder = <<"lib/c.star", "a.star", "b.star">>
    /\ reads = <<"a.star", "lib/c.star", "b.star">>

\* the paths of the ensureLoaded calls in progress, outermost first
StackPaths == [d \in 1..Len(stack) |-> stack[d].path]

\* no unit imports itself, directly or through others
Acyclic == \A p \in Scripts : p \notin ReachFrom(p)

\* the chain of every call in progress is the paths in progress down to it
C16_Chain ==
    /\ \A d \in 1..Len(stack) : stack[d].chain = SubSeq(StackPaths, 1, d)
    /\ NoDup(StackPaths)
    /\ \A d \in 1..Len(stack) : \A p \in Range(stack[d].chain) : p \notin DOMAIN a.globals
    /\ stack # <<>> => walkIdx \in 1..2 /\ stack[1].chain = <<<<"a.star", "b.star">>[walkIdx]>>
    /\ Acyclic => "circular dependency detected:" \notin Range(LoadErr)

\* a circular-dependency error lists the paths in progress and then the
\* path that is one of them
C16_Reported ==
    (retErr = NoErr /\ retErr' # NoErr /\ retErr'[1] = "circular dependency detected:") =>
        /\ stack # <<>>
        /\ SubSeq(retErr', 2, Len(retErr') - 1) = StackPaths
        /\ retErr'[Len(retErr')] \in Range(StackPaths)

\* C16: the load chain a call of ensureLoaded works with is the sequence of
\* the paths in progress, outermost first; a unit that finished loading is
\* never in the chain of a later sibling, every root load starts with an
\* empty chain, and an acyclic import graph is never reported as circular
C16_ChainIsStack == [](C16_Chain) /\ [][C16_Reported]_vars

\* a.star imported lib/c.star, which finished, and is now importing b.star
C16_Witness ==
    /\ Len(stack) = 2
    /\ Top.path = "b.star"
    /\ Top.chain = <<"a.star", "b.star">>
    /\ evalOrder = <<"lib/c.star">>
    /\ stack[1].got = <<[from |-> "file", name |-> "lib/c.star"]>>

\* the script files directly under the root, and what they import
RootLevel == {"a.star", "b.star"}
Imported == Closure(RootLevel)

\* what is read and loaded is a root-level script or imported from one
C17_Loaded ==
    /\ Range(reads) \cap {"a.star", "b.star", "lib/c.star", "notes.txt"} \subseteq Imported
    /\ DOMAIN a.globals \subseteq Imported
    /\ InProgress \subseteq Imported
    /\ Succeeded => DOMAIN ret.applet[1].globals = Imported
    /\ a.mainFile \in Imported \cup {""}
    /\ a.schemaFile \in Imported \cup {""}
    /\ "notes.txt" \notin Range(reads)

\* the walk begins the load of root-level scripts only
C17_WalkStarts == (stack = <<>> /\ stack' # <<>>) => Len(stack') = 1 /\ stack'[1].path \in RootLevel

\* C17: only the script files directly under the root are loaded by the
\* walk; a constructed applet holds exactly these and the files imported
\* from them; a file of a subdirectory that no loaded unit imports is never
\* read, never evaluated and gives neither the entry point nor the schema
C17_RootOnly == [](C17_Loaded) /\ [][C17_WalkStarts]_vars

\* lib/c.star defines main and a schema constructor but nobody imports it
C17_Witness ==
    /\ Succeeded
    /\ Source("lib/c.star").main
    /\ Source("lib/c.star").schema = "ok"
    /\ "lib/c.star" \notin Range(reads)
    /\ ret.applet[1].mainFile = "a.star"
    /\ ret.applet[1].schema = <<>>

\* the schema constructor is called once, without arguments, by the load
C18_Constructor ==
    /\ Len(ctorCalls) <= 1
    /\ \A k \in 1..Len(ctorCalls) : ctorCalls[k] = [fn |-> [file |-> a.schemaFile, name |-> "get_schema"], args |-> <<>>]
    /\ (a.schemaFile # "") <=> (Len(ctorCalls) = 1)
    /\ a.schemaFile # "" => a.schemaFile \in Range(evalOrder)
    /\ last.op = "GetSchema" =>
          last.out = IF \E p \in DOMAIN a.globals : "get_schema" \in a.globals[p] THEN <<"{", "version:1", "schema:[]", "}">> ELSE <<>>

\* the constructor is called in the step that stores the mapping of its
\* file; the calls on a constructed applet change nothing of it
C18_Frame ==
    /\ ctorCalls' # ctorCalls => evalOrder' = Append(evalOrder, ctorCalls'[1].fn.file) /\ ctorCalls = <<>>
    /\ Constructed => a' = a /\ ret' = ret /\ ctorCalls' = ctorCalls /\ evalOrder' = evalOrder

\* C18: the schema constructor is invoked exactly once, with no arguments,
\* when its file has been evaluated, and never again; Run, CallSchemaHandler
\* (nested-schema handlers included) and GetSchema leave the export mappings,
\* the main and schema files, the schema with its handler table and the
\* schema JSON as they are, and GetSchema always returns the same string
C18_ReadOnly == [](C18_Constructor) /\ [][C18_Frame]_vars

\* a nested-schema handler returned a schema, which was parsed and serialized
C18_Witness ==
    /\ last.op = "CallSchemaHandler"
    /\ last.handler = "more"
    /\ last.interp = [kind |-> "value", val |-> [type |-> "Schema", handlers |-> <<>>]]
    /\ last.out.err = NoErr
    /\ Len(ctorCalls) = 1
    /\ DOMAIN ret.applet[1].schema[1].Handlers = {"foobar", "get_opts", "more"}

\* one watcher for each invocation, firing once, after the cancellation of
\* its scope, on its own thread; a call under a live scope is not disturbed
C19_Own ==
    \A i \in Invocations :
        /\ inv[i].fires <= 1
        /\ inv[i].fires = 1 => scope[inv[i].ctx] # <<>> /\ ~inv[i].armed
        /\ (inv[i].st # "free" /\ inv[i].fires = 0) => inv[i].armed
        /\ inv[i].reason # <<>> => inv[i].fires = 1 /\ inv[i].reason = scope[inv[i].ctx]
        /\ (inv[i].st = "returned" /\ scope[inv[i].ctx] = <<>>) => inv[i].reason = <<>> /\ inv[i].out = NaturalOut(inv[i].plan)

\* a result that was returned stays; a thread is cancelled only by the
\* watcher of its own invocation, which leaves the other invocations alone
C19_Isolated ==
    \A i \in Invocations :
        /\ inv[i].st = "returned" => inv'[i].st = "returned" /\ inv'[i].out = inv[i].out
        /\ inv'[i].reason # inv[i].reason =>
              /\ inv'[i].fires = inv[i].fires + 1
              /\ \A j \in Invocations \ {i} : inv'[j] = inv[j]

\* C19: every Call has its own thread and one watcher, which fires at most
\* once, only after the scope of its call was cancelled, and cancels only the
\* thread of its own invocation; a watcher firing after its Call returned
\* changes neither the result of that Call nor any other invocation
C19_OwnContext == [](C19_Own) /\ [][C19_Isolated]_vars

\* the watcher of a returned call fired late; a concurrent call under
\* another scope went on to its own result
C19_Witness ==
    /\ inv["i1"].st = "returned"
    /\ inv["i1"].ctx = "c1"
    /\ inv["i1"].fires = 1
    /\ inv["i1"].firedAt = -1
    /\ inv["i1"].out = [val |-> <<[type |-> "Root", id |-> 1]>>, err |-> NoErr]
    /\ inv["i2"].st = "returned"
    /\ inv["i2"].ctx = "c2"
    /\ inv["i2"].out = [val |-> <<[type |-> "Root", id |-> 1]>>, err |-> NoErr]
    /\ scope["c2"] = <<>>

\* the depth of the recursion is at most the number of script files
C20_Depth == Len(stack) <= 3 /\ NoDup(StackPaths)

\* a nested ensureLoaded that begins an evaluation has a path that is
\* neither in progress nor loaded
C20_Extends ==
    Len(stack') > Len(stack) =>
        /\ Len(stack') = Len(stack) + 1
        /\ stack'[Len(stack')].path \notin Range(StackPaths) \cup DOMAIN a.globals

\* C20: for every file set, cycles and self-imports included, the load
\* terminates, in success or in an error; a nested ensureLoaded returns the
\* stored mapping, fails, or goes one level deeper with a path not in its
\* chain, so that the depth never exceeds the number of files
C20_Terminates == <>(pc = "done" /\ (Succeeded \/ Failed)) /\ [](C20_Depth) /\ [][C20_Extends]_vars

\* a.star imports itself: the load ended with the circular-dependency error
C20_Witness ==
    /\ Failed
    /\ ret.err = <<"starlark.ExecFile:", "circular dependency detected:", "a.star", "a.star">>

====
